---------------------------- MODULE Spec2Model ----------------------------
(***************************************************************************)
(* Telemetry pipeline of the MOPS repository:                              *)
(*   - the ingestion gateway, services/iot-controller/app.py (ingest),     *)
(*   - the rule engine, services/rule-engine/worker.py (callback,          *)
(*     handle_message, insert_alert),                                      *)
(* with the three stores between them: the Event Store (Mongo collection   *)
(* messages), the Event Bus (exchange iot.msg, queue iot.rules) and the    *)
(* Alert Store (Postgres table alerts).                                    *)
(*                                                                         *)
(* Numbers: a Python float is kept in tenths (6.0 is 60), a Python int in  *)
(* units.  A JSON value is a record [t, s, n] tagged with its JSON type.   *)
(***************************************************************************)
EXTENDS Integers, Sequences, FiniteSets, Bags, TLC

(***************************************************************************)
(* Bounds of the model.                                                    *)
(***************************************************************************)
MaxCalls == 2
MaxBusMsgs == 11
MaxRawMsgs == 4
MaxBus == 1
MaxRestarts == 1
MaxWindowMsgs == 11

(***************************************************************************)
(* JSON values and the Python conversions str(), float(), int().           *)
(***************************************************************************)
JStr(s) == [t |-> "str", s |-> s, n |-> 0]
JInt(n) == [t |-> "int", s |-> "", n |-> n]
JFloat(x) == [t |-> "float", s |-> "", n |-> x]
JNull == [t |-> "null", s |-> "", n |-> 0]
JMap == [t |-> "map", s |-> "", n |-> 0]

\* The result of a conversion that raises (ValueError / TypeError).
Raises == [t |-> "raise", s |-> "", n |-> 0]

\* The decimal strings of the model's universe and the number each one spells:
\* int("85") = 85, float("6.0") = 6.0, while int("6.0") raises.
IntStrings == {"42", "85"}
IntOfString(s) == IF s = "42" THEN 42 ELSE 85
FloatStrings == {"6.0"}
FloatOfString(s) == 60

\* Mutant: repr(v) in place of str(v), which quotes a string.
PyRepr(v) ==
    CASE v.t = "str" -> JStr("'" \o v.s \o "'")
      [] v.t = "int" -> JStr(ToString(v.n))
      [] v.t = "float" -> JStr(ToString(v.n \div 10) \o "." \o ToString(v.n % 10))
      [] v.t = "null" -> JStr("None")
      [] OTHER -> JStr("{}")

\* str(v)
PyStr(v) ==
    CASE v.t = "str" -> JStr(v.s)
      [] v.t = "int" -> JStr(ToString(v.n))
      [] v.t = "float" -> JStr(ToString(v.n \div 10) \o "." \o ToString(v.n % 10))
      [] v.t = "null" -> JStr("None")
      [] OTHER -> JStr("{}")

\* float(v)
PyFloat(v) ==
    CASE v.t = "float" -> JFloat(v.n)
      [] v.t = "int" -> JFloat(10 * v.n)
      [] v.t = "str" /\ v.s \in FloatStrings -> JFloat(FloatOfString(v.s))
      [] v.t = "str" /\ v.s \in IntStrings -> JFloat(10 * IntOfString(v.s))
      [] OTHER -> Raises

\* int(v): a float is truncated toward zero, a string must spell an integer.
PyInt(v) ==
    CASE v.t = "int" -> JInt(v.n)
      [] v.t = "float" -> JInt(IF v.n >= 0 THEN v.n \div 10 ELSE -((-v.n) \div 10))
      [] v.t = "str" /\ v.s \in IntStrings -> JInt(IntOfString(v.s))
      [] OTHER -> Raises

(***************************************************************************)
(* Dictionaries: functions from a set of keys to JSON values.              *)
(***************************************************************************)
DictSet(d, k, v) == [x \in DOMAIN d \cup {k} |-> IF x = k THEN v ELSE d[x]]
DictDrop(d, k) == [x \in DOMAIN d \ {k} |-> d[x]]
DictUpdate(d, e) == [x \in DOMAIN d \cup DOMAIN e |-> IF x \in DOMAIN e THEN e[x] ELSE d[x]]
DictGet(d, k, default) == IF k \in DOMAIN d THEN d[k] ELSE default

\* A request or message body: text that is not JSON, a JSON value that is
\* not an object, or a JSON object.
NotJson == [k |-> "garbage", f |-> <<>>]
JsonScalar == [k |-> "scalar", f |-> <<>>]
json_dumps(d) == [k |-> "obj", f |-> d]
json_loads(b) == b.f

(***************************************************************************)
(* validate_payload                                                        *)
(***************************************************************************)
\* Mutant: battery is not checked for presence.
requiredWithoutBattery == {"device_id", "ts", "field_a", "field_b", "seq"}

required == {"device_id", "ts", "field_a", "field_b", "battery", "seq"}

\* The payload after the coercions, a field that raises holding Raises.
Coerced(p) ==
    [x \in DOMAIN p |->
        CASE x \in {"device_id", "ts"} -> PyStr(p[x])
          [] x \in {"field_a", "field_b"} -> PyFloat(p[x])
          [] x \in {"battery", "seq"} -> PyInt(p[x])
          [] OTHER -> p[x]]

\* validate_payload returns (does not raise).
ValidatesOk(body) ==
    /\ body.k = "obj"
    /\ required \subseteq DOMAIN body.f
    /\ \A x \in required : Coerced(body.f)[x] # Raises

validate_payload(p) ==
    LET c == Coerced(p)
    IN  IF "meta" \in DOMAIN c THEN c ELSE DictSet(c, "meta", JMap)

(***************************************************************************)
(* resolve_device_owner                                                    *)
(***************************************************************************)
default_user == [_id |-> "u-default", email |-> "senya@example.com"]

\* The devices collection: one seeded device of the default owner and one
\* device a user created.
devices ==
    { [_id |-> "dev-a", external_id |-> "1", owner_id |-> "u-default",
       owner_email |-> "senya@example.com"],
      [_id |-> "kitchen", external_id |-> "42", owner_id |-> "u-2",
       owner_email |-> "u2@example.com"] }

find_one(field, value) ==
    LET hits == {d \in devices : d[field] = value}
    IN  IF hits = {} THEN {} ELSE {CHOOSE d \in hits : TRUE}

resolve_device_owner(device_id) ==
    LET byId == find_one("_id", device_id)
        dev == IF byId # {} THEN byId ELSE find_one("external_id", device_id)
    IN  IF dev # {}
        THEN LET d == CHOOSE x \in dev : TRUE
             IN  [owner_id |-> JStr(d.owner_id), owner_email |-> JStr(d.owner_email),
                  device_ref |-> JStr(d._id)]
        ELSE [owner_id |-> JStr(default_user._id),
              owner_email |-> JStr(default_user.email),
              device_ref |-> JNull]


(***************************************************************************)
(* Event Bus: exchange iot.msg (topic), queue iot.rules bound device.*     *)
(***************************************************************************)
\* Strings of the model's universe that hold a dot, and so make a routing
\* key of more than two words.
DottedStrings == {"4.2", "6.0"}

\* The routing key device.<device_id> matches the binding device.* exactly
\* when <device_id> is one word.
MatchesBinding(device_id) == device_id \notin DottedStrings

prefetch_count == 10

(***************************************************************************)
(* Rule Engine configuration                                               *)
(***************************************************************************)
rule_instant_device == "42"
rule_instant_threshold == 50
rule_persistent_count == 10

(***************************************************************************)
(* The requests the gateway receives and the bodies other publishers put   *)
(* on the bus.                                                             *)
(***************************************************************************)
BasePayload ==
    [device_id |-> JStr("42"), ts |-> JStr("t1"), field_a |-> JFloat(60),
     field_b |-> JFloat(10), battery |-> JInt(85), seq |-> JInt(1)]

ValidPayloads ==
    { BasePayload,
      DictSet(BasePayload, "device_id", JInt(42)),
      DictSet(BasePayload, "device_id", JStr("kitchen")),
      DictSet(DictSet(BasePayload, "device_id", JStr("7")), "battery", JStr("85")) }

InvalidPayloads ==
    { DictDrop(BasePayload, k) : k \in required }
    \cup { DictSet(BasePayload, "field_a", JStr("abc")),
           DictSet(BasePayload, "battery", JStr("6.0")),
           DictSet(BasePayload, "seq", JNull) }

Requests ==
    { json_dumps(p) : p \in ValidPayloads \cup InvalidPayloads }
    \cup {NotJson, JsonScalar}

\* Requests whose device_id is one word, a string with a dot in it, and a
\* number that str() spells with a dot.
RouteRequests ==
    { json_dumps(BasePayload),
      json_dumps(DictSet(BasePayload, "device_id", JStr("6.0"))),
      json_dumps(DictSet(BasePayload, "device_id", JFloat(42))) }

\* Payloads validate_payload accepts, every coerced field in each JSON type
\* the coercion takes, with and without meta.
ValidateRequests ==
    { json_dumps(DictUpdate(BasePayload, e)) :
        e \in { DictUpdate([device_id |-> d, field_a |-> a, battery |-> b], m) :
                   d \in {JStr("42"), JFloat(42), JNull},
                   a \in {JFloat(60), JInt(42), JStr("6.0")},
                   b \in {JInt(85), JFloat(855), JStr("85")},
                   m \in {<<>>, [meta |-> JMap]} } }

\* What a publisher of well-formed telemetry sends, and a body that is no JSON.
BusBodies ==
    { json_dumps([device_id |-> JStr("42"), field_a |-> JFloat(60)]),
      json_dumps([device_id |-> JStr("42"), field_a |-> JFloat(50)]),
      json_dumps([device_id |-> JStr("7"), field_a |-> JFloat(60)]),
      NotJson }

\* Requests that validate: one within the schema, two whose battery is
\* outside 0..100, one with a key the schema does not have.
SchemaRequests ==
    { json_dumps(BasePayload),
      json_dumps(DictSet(BasePayload, "battery", JInt(150))),
      json_dumps(DictSet(BasePayload, "battery", JFloat(-15))),
      json_dumps(DictSet(BasePayload, "note", JStr("x"))) }

\* Telemetry of two devices that report in turn and raise no alert.
WindowBodies ==
    << json_dumps([device_id |-> JStr("42"), field_a |-> JFloat(50)]),
       json_dumps([device_id |-> JStr("7"), field_a |-> JFloat(60)]) >>

\* Bodies that are not TelemetryEvent-shaped, and two that are.
RawBodies ==
    { json_dumps([device_id |-> JStr("42"), field_a |-> JFloat(60)]),
      json_dumps([device_id |-> JInt(42), field_a |-> JStr("6.0")]),
      json_dumps([device_id |-> JStr("42")]),
      json_dumps([field_a |-> JFloat(60)]),
      json_dumps([device_id |-> JStr("42"), field_a |-> JStr("abc")]),
      JsonScalar,
      NotJson }

(***************************************************************************)
(* State                                                                   *)
(***************************************************************************)
VARIABLES
    calls,        \* gateway: each Ingest call's position, request, event, result,
                  \*          its insert_one and basic_publish attempts, and
                  \*          whether basic_publish returned
    messages,     \* Event Store: the documents of collection messages
    queue,        \* Event Bus: messages ready in queue iot.rules
    unacked,      \* Event Bus: deliveries to the engine not yet acknowledged, in
                  \*            delivery order, each marked once the callback got it
    sent,         \* number of bodies other publishers have put on the bus
    pc,           \* engine: position of the consumer loop / callback
    cur,          \* engine: the delivery the callback is running for
    state,        \* engine: RuleState, device_id -> consecutive violations
    pg_ok,        \* engine: the Alert Store connection accepts statements
    alerts,       \* Alert Store: bag of rows of table alerts
    rule_errors,  \* engine: counter rule_engine_errors_total
    restarts,     \* number of engine restarts so far
    consumed,     \* history: the Ingest calls whose event reached the callback
    pre,          \* history: state and rule_errors when the running callback began
    written,      \* history: the rows the running callback has inserted
    streak        \* history: consecutive predicate-true messages of device 42
                  \*          evaluated in this engine run, counted from a
                  \*          message that found the counter at 0

vars ==
    <<calls, messages, queue, unacked, sent, pc, cur, state, pg_ok,
      alerts, rule_errors, restarts, consumed, pre, written, streak>>

gatewayVars == <<calls, messages>>
engineVars ==
    <<pc, cur, state, pg_ok, alerts, rule_errors, restarts, consumed, pre,
      written, streak>>

CallIds == 1 .. MaxCalls
NoDoc == <<>>
NoDelivery == [msg |-> [body |-> NotJson, src |-> 0]]
NoSnapshot == [state |-> <<>>, rule_errors |-> 0]

Init ==
    /\ calls = [c \in CallIds |-> [pc |-> "new", req |-> NotJson, doc |-> NoDoc,
                                   result |-> "none", inserts |-> 0,
                                   publishes |-> 0, published |-> FALSE]]
    /\ messages = {}
    /\ queue = <<>>
    /\ unacked = <<>>
    /\ sent = 0
    /\ pc = "idle"
    /\ cur = NoDelivery
    /\ state = <<>>
    /\ pg_ok = TRUE
    /\ alerts = EmptyBag
    /\ rule_errors = 0
    /\ restarts = 0
    /\ consumed = {}
    /\ pre = NoSnapshot
    /\ written = <<>>
    /\ streak = 0

(***************************************************************************)
(* Ingestion gateway: ingest(), one action per external call it makes.     *)
(***************************************************************************)
\* request.get_json and validate_payload (app.py 241-251): where the call
\* goes, what it returns, the validated event.
AfterValidate(req) ==
    IF req.k = "garbage"
    THEN [pc |-> "done", result |-> "invalid_json", doc |-> NoDoc]
    ELSE IF ~ValidatesOk(req)
    THEN [pc |-> "done", result |-> "validation_error", doc |-> NoDoc]
    ELSE [pc |-> "resolve", result |-> "none",
          doc |-> validate_payload(json_loads(req))]

\* resolve_device_owner and validated.update (app.py 252-253).  The lookup
\* queries the devices collection outside any try: when it raises, the
\* request ends in the framework's internal error.
AfterResolve(doc, lookupOk) ==
    IF lookupOk
    THEN [pc |-> "insert", result |-> "none",
          doc |-> DictUpdate(doc, resolve_device_owner(doc["device_id"].s))]
    ELSE [pc |-> "done", result |-> "internal_error", doc |-> doc]

\* Mutant: the except of insert_one does not return.
AfterInsertFallsThrough(insertOk) ==
    [pc |-> "publish", result |-> IF insertOk THEN "none" ELSE "db_error"]

\* messages.insert_one and its except (app.py 254-260).
AfterInsert(insertOk) ==
    IF insertOk
    THEN [pc |-> "publish", result |-> "none"]
    ELSE [pc |-> "done", result |-> "db_error"]

\* The collection after insert_one; the store gives the document its _id.
Stored(store, c, doc, insertOk) ==
    IF insertOk THEN store \cup {[_id |-> c, doc |-> doc]} ELSE store

\* Mutant: the except of basic_publish sends the call back to the publish.
AfterPublishRetries(publishOk) ==
    IF publishOk
    THEN [pc |-> "done", result |-> "ok"]
    ELSE [pc |-> "publish", result |-> "none"]

\* channel.basic_publish and its except (app.py 261-275).
AfterPublish(publishOk) ==
    IF publishOk
    THEN [pc |-> "done", result |-> "ok"]
    ELSE [pc |-> "done", result |-> "rabbit_error"]

\* Mutant: the except of basic_publish publishes once more, and that goes through.
RoutedWithRetry(q, c, doc, publishOk) ==
    IF MatchesBinding(doc["device_id"].s)
    THEN Append(q, [body |-> json_dumps(doc), src |-> c])
    ELSE q

\* Queue iot.rules after the publish: the body is the document without its
\* _id; the exchange routes it when the routing key matches the binding.
Routed(q, c, doc, publishOk) ==
    IF publishOk /\ MatchesBinding(doc["device_id"].s)
    THEN Append(q, [body |-> json_dumps(doc), src |-> c])
    ELSE q

IngestValidate(c, req) ==
    /\ calls[c].pc = "new"
    /\ LET r == AfterValidate(req)
       IN  calls' = [calls EXCEPT ![c].pc = r.pc, ![c].result = r.result,
                                  ![c].doc = r.doc, ![c].req = req]
    /\ UNCHANGED <<messages, queue, unacked, sent>>
    /\ UNCHANGED engineVars

IngestResolve(c) ==
    /\ calls[c].pc = "resolve"
    /\ \E lookupOk \in BOOLEAN :
         LET r == AfterResolve(calls[c].doc, lookupOk)
         IN  calls' = [calls EXCEPT ![c].pc = r.pc, ![c].result = r.result,
                                    ![c].doc = r.doc]
    /\ UNCHANGED <<messages, queue, unacked, sent>>
    /\ UNCHANGED engineVars

IngestInsert(c) ==
    /\ calls[c].pc = "insert"
    /\ \E insertOk \in BOOLEAN :
         LET r == AfterInsert(insertOk)
         IN  /\ messages' = Stored(messages, c, calls[c].doc, insertOk)
             /\ calls' = [calls EXCEPT ![c].pc = r.pc, ![c].result = r.result,
                                       ![c].inserts = @ + 1]
    /\ UNCHANGED <<queue, unacked, sent>>
    /\ UNCHANGED engineVars

IngestPublish(c) ==
    /\ calls[c].pc = "publish"
    /\ \E publishOk \in BOOLEAN :
         LET r == AfterPublish(publishOk)
         IN  /\ queue' = Routed(queue, c, calls[c].doc, publishOk)
             /\ calls' = [calls EXCEPT ![c].pc = r.pc, ![c].result = r.result,
                                       ![c].publishes = @ + 1,
                                       ![c].published = publishOk]
    /\ UNCHANGED <<messages, unacked, sent>>
    /\ UNCHANGED engineVars

\* Any other publisher of exchange iot.msg.
BusPublish(body) ==
    /\ sent < MaxBusMsgs
    /\ Len(queue) + Len(unacked) < MaxBus
    /\ queue' = Append(queue, [body |-> body, src |-> 0])
    /\ sent' = sent + 1
    /\ UNCHANGED unacked
    /\ UNCHANGED gatewayVars
    /\ UNCHANGED engineVars

\* A publisher of bodies that need not be telemetry events.
RawPublish(body) ==
    /\ sent < MaxRawMsgs
    /\ Len(queue) + Len(unacked) < MaxBus
    /\ queue' = Append(queue, [body |-> body, src |-> 0])
    /\ sent' = sent + 1
    /\ UNCHANGED unacked
    /\ UNCHANGED gatewayVars
    /\ UNCHANGED engineVars

\* A publisher that does not wait for the engine: the queue fills up.
WindowPublish ==
    /\ sent < MaxWindowMsgs
    /\ queue' = Append(queue, [body |-> WindowBodies[(sent % 2) + 1], src |-> 0])
    /\ sent' = sent + 1
    /\ UNCHANGED unacked
    /\ UNCHANGED gatewayVars
    /\ UNCHANGED engineVars

(***************************************************************************)
(* Event Bus to engine: basic_consume with basic_qos(prefetch_count).       *)
(***************************************************************************)
Deliver ==
    /\ queue # <<>>
    /\ Len(unacked) < prefetch_count
    /\ unacked' = Append(unacked, [msg |-> Head(queue), handed |-> FALSE])
    /\ queue' = Tail(queue)
    /\ UNCHANGED sent
    /\ UNCHANGED gatewayVars
    /\ UNCHANGED engineVars

(***************************************************************************)
(* Rule Engine: callback, handle_message, insert_alert                     *)
(***************************************************************************)
\* handle_message lines 50-52 do not raise on this body.
Decodes(body) ==
    /\ body.k = "obj"
    /\ PyFloat(DictGet(body.f, "field_a", JInt(0))) # Raises

MsgDevice(body) == PyStr(DictGet(json_loads(body), "device_id", JNull)).s
MsgFieldA(body) == PyFloat(DictGet(json_loads(body), "field_a", JInt(0))).n

\* Mutant: the comparison is inverted.
ViolatesBelow(device_id, field_a) ==
    device_id = rule_instant_device /\ field_a < rule_instant_threshold

\* Mutant: the rule is not tied to its device.
ViolatesAnyDevice(device_id, field_a) == field_a > rule_instant_threshold

\* The condition of lines 55 and 60.
Violates(device_id, field_a) ==
    device_id = rule_instant_device /\ field_a > rule_instant_threshold

StateGet(st, device_id) == IF device_id \in DOMAIN st THEN st[device_id] ELSE 0

\* Mutant: the assignment replaces the dict by one that holds this key only.
StateSetAlone(st, device_id, n) == [d \in {device_id} |-> n]

StateSet(st, device_id, n) ==
    [d \in DOMAIN st \cup {device_id} |-> IF d = device_id THEN n ELSE st[d]]

\* Mutant: the else branch leaves the counter as it is.
UpdateCounterNoReset(st, device_id, field_a) ==
    IF Violates(device_id, field_a)
    THEN StateSet(st, device_id, StateGet(st, device_id) + 1)
    ELSE StateSet(st, device_id, StateGet(st, device_id))

\* Lines 60-63.
UpdateCounter(st, device_id, field_a) ==
    IF Violates(device_id, field_a)
    THEN StateSet(st, device_id, StateGet(st, device_id) + 1)
    ELSE StateSet(st, device_id, 0)

\* Mutant: the persistent rule is due whenever the counter has been set.
PersistentDueAlways(st, device_id) == StateGet(st, device_id) >= 0

\* Mutant: the streak must exceed the configured length.
PersistentDueOffByOne(st, device_id) == StateGet(st, device_id) > rule_persistent_count

\* Line 65.
PersistentDue(st, device_id) == StateGet(st, device_id) >= rule_persistent_count

\* Mutant: count and severity are passed in each other's place.
AlertRowSwapped(device_id, rule_id, rule_type, payload, count, severity) ==
    [device_id |-> device_id, rule_id |-> rule_id, rule_type |-> rule_type,
     payload |-> payload, count |-> severity, severity |-> count]

\* The row insert_alert writes (lines 84-87).
AlertRow(device_id, rule_id, rule_type, payload, count, severity) ==
    [device_id |-> device_id, rule_id |-> rule_id, rule_type |-> rule_type,
     payload |-> payload, count |-> count, severity |-> severity]

\* The table after the INSERT and the commit.
insert_alert(table, device_id, rule_id, rule_type, payload, count, severity) ==
    table (+) SetToBag({AlertRow(device_id, rule_id, rule_type, payload, count, severity)})

\* The outcomes a statement on the Alert Store connection can have.  No
\* rollback follows a failed statement (lines 80-89, 111-112), so the
\* connection stays in its failed transaction until the engine restarts.
WriteOutcomes == IF pg_ok THEN BOOLEAN ELSE {FALSE}

\* History only: the instant predicate as the engine is configured
\* (device "42", field_a above 5.0), read off the body.
WellFormed(body) ==
    /\ body.k = "obj"
    /\ {"device_id", "field_a"} \subseteq DOMAIN body.f
    /\ body.f["device_id"].t = "str"
    /\ body.f["field_a"].t = "float"

PredicateTrue(body) ==
    WellFormed(body) /\ body.f["device_id"].s = "42" /\ body.f["field_a"].n > 50

NextStreak(body) ==
    IF PredicateTrue(body)
    THEN IF "42" \in DOMAIN state /\ state["42"] # 0 THEN streak + 1 ELSE 1
    ELSE IF WellFormed(body) /\ body.f["device_id"].s = "42" THEN 0 ELSE streak

\* Mutant: basic_ack is the last statement of the try, not of a finally.
CallbackAckInTry(raised) == IF raised THEN "idle" ELSE "ack"

\* The callback's try / except / finally (lines 109-115): whether or not
\* handle_message raised, basic_ack comes next.
CallbackFinally(raised) == "ack"

\* Mutant: the newest delivery of the window is dispatched first.
NewestDelivery ==
    CHOOSE i \in 1 .. Len(unacked) :
        ~unacked[i].handed /\ \A j \in i + 1 .. Len(unacked) : unacked[j].handed

\* Deliveries reach the callback one at a time, in delivery order.
NextDelivery ==
    CHOOSE i \in 1 .. Len(unacked) :
        ~unacked[i].handed /\ \A j \in 1 .. i - 1 : unacked[j].handed

\* The consumer loop hands the callback the next delivery (lines 107-110).
Callback ==
    /\ pc = "idle"
    /\ \E i \in 1 .. Len(unacked) : ~unacked[i].handed
    /\ cur' = [msg |-> unacked[NextDelivery].msg]
    /\ unacked' = [unacked EXCEPT ![NextDelivery].handed = TRUE]
    /\ pc' = "handle"
    /\ consumed' = consumed \cup ({unacked[NextDelivery].msg.src} \ {0})
    /\ pre' = [state |-> state, rule_errors |-> rule_errors]
    /\ written' = <<>>
    /\ UNCHANGED <<queue, sent, state, pg_ok, alerts, rule_errors, restarts,
                   streak>>
    /\ UNCHANGED gatewayVars

\* handle_message lines 50-58: decode, instant rule.  An exception leaves
\* handle_message and is counted by the callback (lines 111-112).
HandleMessageInstant ==
    /\ pc = "handle"
    /\ LET body == cur.msg.body
       IN  IF ~Decodes(body)
           THEN /\ rule_errors' = rule_errors + 1
                /\ pc' = CallbackFinally(TRUE)
                /\ UNCHANGED <<alerts, pg_ok, written>>
           ELSE IF Violates(MsgDevice(body), MsgFieldA(body))
           THEN \E writeOk \in WriteOutcomes :
                  IF writeOk
                  THEN /\ alerts' = insert_alert(alerts, MsgDevice(body),
                                       "instant_42_a_gt_5", "instant",
                                       json_loads(body), 1, 1)
                       /\ written' = Append(written,
                                       AlertRow(MsgDevice(body), "instant_42_a_gt_5",
                                                "instant", json_loads(body), 1, 1))
                       /\ pc' = "update"
                       /\ UNCHANGED <<rule_errors, pg_ok>>
                  ELSE /\ pg_ok' = FALSE
                       /\ rule_errors' = rule_errors + 1
                       /\ pc' = CallbackFinally(TRUE)
                       /\ UNCHANGED <<alerts, written>>
           ELSE /\ pc' = "update"
                /\ UNCHANGED <<alerts, rule_errors, pg_ok, written>>
    /\ streak' = NextStreak(cur.msg.body)
    /\ UNCHANGED <<queue, unacked, sent, cur, state, restarts, consumed, pre>>
    /\ UNCHANGED gatewayVars

\* handle_message lines 60-77: counter update, persistent rule.
HandleMessagePersistent ==
    /\ pc = "update"
    /\ LET body == cur.msg.body
           dev == MsgDevice(body)
           st == UpdateCounter(state, dev, MsgFieldA(body))
       IN  IF PersistentDue(st, dev)
           THEN \E writeOk \in WriteOutcomes :
                  IF writeOk
                  THEN /\ alerts' = insert_alert(alerts, dev,
                                       "persistent_42_a_gt_5", "persistent",
                                       json_loads(body), st[dev], 2)
                       /\ written' = Append(written,
                                       AlertRow(dev, "persistent_42_a_gt_5",
                                                "persistent", json_loads(body),
                                                st[dev], 2))
                       /\ state' = StateSet(st, dev, 0)
                       /\ pc' = CallbackFinally(FALSE)
                       /\ UNCHANGED <<rule_errors, pg_ok>>
                  ELSE /\ state' = st
                       /\ pg_ok' = FALSE
                       /\ rule_errors' = rule_errors + 1
                       /\ pc' = CallbackFinally(TRUE)
                       /\ UNCHANGED <<alerts, written>>
           ELSE /\ state' = st
                /\ pc' = CallbackFinally(FALSE)
                /\ UNCHANGED <<alerts, rule_errors, pg_ok, written>>
    /\ UNCHANGED <<queue, unacked, sent, cur, restarts, consumed, pre, streak>>
    /\ UNCHANGED gatewayVars

\* Mutant: the finally rejects the delivery and the broker requeues it.
BasicNackRequeue ==
    /\ pc = "ack"
    /\ unacked' = Tail(unacked)
    /\ queue' = Append(queue, cur.msg)
    /\ pc' = "idle"
    /\ cur' = NoDelivery
    /\ pre' = NoSnapshot
    /\ written' = <<>>
    /\ UNCHANGED <<sent, state, pg_ok, alerts, rule_errors, restarts,
                   consumed, streak>>
    /\ UNCHANGED gatewayVars

\* ch.basic_ack(delivery_tag=method.delivery_tag) in the callback's finally
\* (line 115): the broker drops the delivery the callback was handed.
BasicAck ==
    /\ pc = "ack"
    /\ unacked' = Tail(unacked)
    /\ pc' = "idle"
    /\ cur' = NoDelivery
    /\ pre' = NoSnapshot
    /\ written' = <<>>
    /\ UNCHANGED <<queue, sent, state, pg_ok, alerts, rule_errors, restarts,
                   consumed, streak>>
    /\ UNCHANGED gatewayVars

\* Mutant: RuleState outlives the process.
RestartKeepsState ==
    /\ restarts < MaxRestarts
    /\ restarts' = restarts + 1
    /\ queue' = [i \in 1 .. Len(unacked) |-> unacked[i].msg] \o queue
    /\ unacked' = <<>>
    /\ pc' = "idle"
    /\ cur' = NoDelivery
    /\ pg_ok' = TRUE
    /\ rule_errors' = 0
    /\ pre' = NoSnapshot
    /\ written' = <<>>
    /\ streak' = 0
    /\ UNCHANGED <<sent, alerts, consumed, state>>
    /\ UNCHANGED gatewayVars

\* The engine process dies and main() runs again (lines 92-121): a new
\* connection and channel, an empty state and zeroed counters; the broker
\* requeues what the dead channel had not acknowledged.
Restart ==
    /\ restarts < MaxRestarts
    /\ restarts' = restarts + 1
    /\ queue' = [i \in 1 .. Len(unacked) |-> unacked[i].msg] \o queue
    /\ unacked' = <<>>
    /\ pc' = "idle"
    /\ cur' = NoDelivery
    /\ state' = <<>>
    /\ pg_ok' = TRUE
    /\ rule_errors' = 0
    /\ pre' = NoSnapshot
    /\ written' = <<>>
    /\ streak' = 0
    /\ UNCHANGED <<sent, alerts, consumed>>
    /\ UNCHANGED gatewayVars

(***************************************************************************)
(* Specifications                                                          *)
(***************************************************************************)
Engine ==
    \/ Deliver
    \/ Callback
    \/ HandleMessageInstant
    \/ HandleMessagePersistent
    \/ BasicAck
    \/ Restart

\* The pipeline: the gateway is the bus's only publisher.
Next ==
    \/ \E c \in CallIds, req \in Requests : IngestValidate(c, req)
    \/ \E c \in CallIds : IngestResolve(c)
    \/ \E c \in CallIds : IngestInsert(c)
    \/ \E c \in CallIds : IngestPublish(c)
    \/ Engine

Spec == Init /\ [][Next]_vars

\* The engine fed by any publisher of the exchange.
EngineNext ==
    \/ \E body \in BusBodies : BusPublish(body)
    \/ Engine

EngineSpec == Init /\ [][EngineNext]_vars

\* The engine fed bodies of any shape.
RawNext ==
    \/ \E body \in RawBodies : RawPublish(body)
    \/ Engine

RawSpec == Init /\ [][RawNext]_vars

\* The engine behind a queue that holds more than the prefetch window.
WindowNext ==
    \/ WindowPublish
    \/ Engine

WindowSpec == Init /\ [][WindowNext]_vars

\* The gateway alone, fed requests that validate.
SchemaNext ==
    \/ \E c \in CallIds, req \in SchemaRequests : IngestValidate(c, req)
    \/ \E c \in CallIds : IngestResolve(c)
    \/ \E c \in CallIds : IngestInsert(c)
    \/ \E c \in CallIds : IngestPublish(c)

SchemaSpec == Init /\ [][SchemaNext]_vars

\* The pipeline fed valid requests whose device_id may hold a dot.
RouteNext ==
    \/ \E c \in CallIds, req \in RouteRequests : IngestValidate(c, req)
    \/ \E c \in CallIds : IngestResolve(c)
    \/ \E c \in CallIds : IngestInsert(c)
    \/ \E c \in CallIds : IngestPublish(c)
    \/ Engine

RouteSpec == Init /\ [][RouteNext]_vars

\* validate_payload alone, applied to the payloads it accepts.
ValidateNext == \E c \in CallIds, req \in ValidateRequests : IngestValidate(c, req)

ValidateSpec == Init /\ [][ValidateNext]_vars

(***************************************************************************)
(* Properties of the gateway, checked under Spec                           *)
(***************************************************************************)
BusMessages ==
    {queue[i] : i \in 1 .. Len(queue)} \cup {unacked[i].msg : i \in 1 .. Len(unacked)}

\* The Event Store holds the document call c inserted.
InStore(c) == \E d \in messages : d._id = c /\ d.doc = calls[c].doc

\* Nothing of call c is on the bus or has reached the engine.
NotOnBus(c) == c \notin consumed /\ \A m \in BusMessages : m.src # c

\* C1: in every Ingest call, under any interleaving of calls, the insert
\* precedes the publish: a publish is attempted only after the call's own
\* insert succeeded; a failed insert ends the call with a store error and no
\* publish; every message on the bus is a document of the Event Store; and
\* success is returned only after both the insert and the publish succeeded.
C1_PersistBeforePublish ==
    /\ \A c \in CallIds :
         /\ (calls[c].pc = "publish" \/ calls[c].publishes > 0) => InStore(c)
         /\ calls[c].result = "db_error" =>
              /\ calls[c].pc = "done"
              /\ calls[c].publishes = 0
              /\ ~InStore(c)
              /\ NotOnBus(c)
         /\ calls[c].result = "ok" =>
              /\ InStore(c)
              /\ calls[c].published
    /\ \A m \in BusMessages :
         \E d \in messages : d._id = m.src /\ json_dumps(d.doc) = m.body

\* One call failed at the store while another went through to the bus.
C1_Witness ==
    \E c1, c2 \in CallIds :
        /\ calls[c1].result = "db_error"
        /\ calls[c2].result = "ok"
        /\ \E m \in BusMessages : m.src = c2

LacksRequired(req) ==
    /\ req.k = "obj"
    /\ \E k \in {"device_id", "ts", "field_a", "field_b", "battery", "seq"} :
         k \notin DOMAIN req.f

NotCoercible(req) ==
    /\ req.k = "obj"
    /\ ~LacksRequired(req)
    /\ \/ PyFloat(req.f["field_a"]) = Raises
       \/ PyFloat(req.f["field_b"]) = Raises
       \/ PyInt(req.f["battery"]) = Raises
       \/ PyInt(req.f["seq"]) = Raises

\* C2: a call whose payload lacks a required field, or holds a required
\* field that cannot be coerced, returns a validation error and makes no
\* insert and no publish: no document and no bus message comes from it.
C2_InvalidTouchesNothing ==
    \A c \in CallIds :
        (calls[c].pc # "new" /\ (LacksRequired(calls[c].req) \/ NotCoercible(calls[c].req)))
        => /\ calls[c].pc = "done"
           /\ calls[c].result = "validation_error"
           /\ calls[c].inserts = 0
           /\ calls[c].publishes = 0
           /\ \A d \in messages : d._id # c
           /\ NotOnBus(c)

\* Scenario C beside a call that stored and published its event.
C2_Witness ==
    \E c1, c2 \in CallIds :
        /\ calls[c1].req.k = "obj"
        /\ DOMAIN calls[c1].req.f = {"device_id", "ts", "field_a", "field_b", "seq"}
        /\ calls[c1].result = "validation_error"
        /\ calls[c2].result = "ok"
        /\ Cardinality(messages) = 1

\* C3: when the insert succeeds and the publish fails, the call reports a bus
\* error, the document stays in the Event Store, the publish is attempted
\* once only, and the event never reaches the Rule Engine.
C3_BusErrorKeepsRow ==
    \A c \in CallIds :
        (calls[c].inserts = 1 /\ InStore(c) /\ calls[c].publishes > 0 /\ ~calls[c].published)
        => /\ calls[c].pc = "done"
           /\ calls[c].result = "rabbit_error"
           /\ calls[c].publishes = 1
           /\ NotOnBus(c)

\* Scenario D beside a call whose event the engine has consumed.
C3_Witness ==
    \E c1, c2 \in CallIds :
        /\ calls[c1].result = "rabbit_error"
        /\ InStore(c1)
        /\ c2 \in consumed
        /\ pc = "idle"

ValidRequest(req) == req.k = "obj" /\ ~LacksRequired(req) /\ ~NotCoercible(req)

\* C10: ownership resolution never makes Ingest fail: every call with a valid
\* payload goes on to the Event Store insert, whatever the device lookup did.
C10_ResolutionNeverFails ==
    \A c \in CallIds :
        (calls[c].pc = "done" /\ ValidRequest(calls[c].req)) => calls[c].inserts = 1

\* The bus messages and Event Store documents that come from call c.
OnBusFrom(c) ==
    Cardinality({i \in 1 .. Len(queue) : queue[i].src = c})
    + Cardinality({i \in 1 .. Len(unacked) : unacked[i].msg.src = c})
DocsFrom(c) == {d \in messages : d._id = c}

\* C11 (as amended): an Ingest call makes at most one insert_one attempt and
\* at most one basic_publish attempt, and no failed step is tried again:
\* exactly one insert attempt once the call reached the Event Store step
\* (result ok, store error or bus error), none when it ended before it
\* (invalid JSON, validation error, the device lookup raising); a publish
\* attempt only after the insert; at most one document and, without a
\* redelivery, at most one bus message per call.
C11_OneAttemptEach ==
    \A c \in CallIds :
        /\ calls[c].inserts <= 1
        /\ calls[c].publishes <= 1
        /\ calls[c].publishes <= calls[c].inserts
        /\ calls[c].result \in {"ok", "db_error", "rabbit_error"} => calls[c].inserts = 1
        /\ calls[c].result \in {"invalid_json", "validation_error", "internal_error"}
             => calls[c].inserts = 0
        /\ calls[c].pc = "publish" => calls[c].inserts = 1
        /\ calls[c].result \in {"ok", "rabbit_error"} => calls[c].publishes = 1
        /\ Cardinality(DocsFrom(c)) <= calls[c].inserts
        /\ OnBusFrom(c) <= calls[c].publishes

\* C11 as claimed: every call that is over made exactly one insert attempt.
C11_Original ==
    \A c \in CallIds :
        calls[c].pc = "done" => calls[c].inserts = 1 /\ calls[c].publishes <= 1

\* A call whose publish failed and a call whose insert failed, each after one
\* attempt, and one document in the Event Store.
C11_Witness ==
    \E c1, c2 \in CallIds :
        /\ calls[c1].result = "rabbit_error"
        /\ calls[c1].inserts = 1 /\ calls[c1].publishes = 1
        /\ calls[c2].result = "db_error"
        /\ calls[c2].inserts = 1 /\ calls[c2].publishes = 0
        /\ Cardinality(messages) = 1

\* C12: every event whose publish succeeded is routed to queue iot.rules,
\* whatever device_id string validation let through: it is in the queue,
\* delivered and unacknowledged (also across an engine restart), or has
\* reached the engine's callback.
C12_PublishedIsRouted ==
    \A c \in CallIds :
        calls[c].published => (c \in consumed \/ \E m \in BusMessages : m.src = c)

\* C14: validation is idempotent: the event validate_payload made of an
\* accepted payload is accepted again, and validating it yields the same
\* typed values for device_id, ts, field_a, field_b, battery, seq and meta.
C14_ValidationIdempotent ==
    \A c \in CallIds :
        calls[c].pc = "resolve" =>
            /\ ValidatesOk(json_dumps(calls[c].doc))
            /\ validate_payload(json_loads(json_dumps(calls[c].doc))) = calls[c].doc

\* An accepted payload whose device_id, field_a and battery were all coerced
\* to another type and whose meta was defaulted.
C14_Witness ==
    \E c \in CallIds :
        /\ calls[c].pc = "resolve"
        /\ "meta" \notin DOMAIN calls[c].req.f
        /\ calls[c].req.f["device_id"] = JFloat(42)
        /\ calls[c].req.f["field_a"] = JStr("6.0")
        /\ calls[c].req.f["battery"] = JFloat(855)
        /\ calls[c].doc["device_id"] = JStr("4.2")
        /\ calls[c].doc["field_a"] = JFloat(60)
        /\ calls[c].doc["battery"] = JInt(85)
        /\ calls[c].doc["meta"] = JMap

\* The events the gateway has persisted or published.
EventsOut ==
    {d.doc : d \in messages} \cup {json_loads(m.body) : m \in BusMessages}

\* C21: every event the gateway persists or publishes has a battery that is
\* an integer in 0..100.
C21_BatteryInRange ==
    \A e \in EventsOut :
        e["battery"].t = "int" /\ e["battery"].n \in 0 .. 100

\* The fields of a TelemetryEvent: the six required ones (the timestamp is
\* the field ts), meta, and the ownership annotations.
SchemaFields ==
    {"device_id", "ts", "field_a", "field_b", "battery", "seq", "meta",
     "owner_id", "owner_email", "device_ref"}

\* C22: every event the gateway persists or publishes holds schema fields
\* only, never a key the caller added.
C22_ExtraKeysDropped == \A e \in EventsOut : DOMAIN e \subseteq SchemaFields

(***************************************************************************)
(* Properties of the Rule Engine, checked under EngineSpec and RawSpec     *)
(***************************************************************************)
RowsOfType(rule_type) == {r \in BagToSet(alerts) : r.rule_type = rule_type}
CountOfType(rule_type) ==
    BagCardinality([r \in RowsOfType(rule_type) |-> alerts[r]])
WrittenOfType(rule_type) == SelectSeq(written, LAMBDA r : r.rule_type = rule_type)

\* The step added exactly one row, an instant alert of device 42 with count 1
\* and severity 1 whose payload is the message.
AddsOneInstant(body) ==
    \E r \in BagToSet(alerts') :
        /\ alerts' = alerts (+) SetToBag({r})
        /\ r.rule_type = "instant"
        /\ r.device_id = "42"
        /\ r.count = 1
        /\ r.severity = 1
        /\ r.payload = body.f

InstantRowsUnchanged ==
    \A r \in BagToSet(alerts) \cup BagToSet(alerts') :
        r.rule_type = "instant" => CopiesIn(r, alerts') = CopiesIn(r, alerts)

\* C4 (as amended): the evaluation of a message of device 42 whose field_a
\* exceeds 5.0 adds exactly one instant row with count 1 and severity 1,
\* whatever the counter holds, when the Alert Store accepts the write, and no
\* row when the write fails; the rest of the evaluation adds no instant row.
C4_InstantAlert ==
    [][ /\ (pc = "handle" /\ pc' \in {"update", "ack"} /\ PredicateTrue(cur.msg.body))
           => IF pg_ok'
              THEN AddsOneInstant(cur.msg.body) /\ pc' = "update"
              ELSE alerts' = alerts /\ pc' = "ack"
        /\ (pc = "update" /\ pc' = "ack") => InstantRowsUnchanged
      ]_vars

\* C4 as claimed: the row is written whether or not the store accepts it.
C4_Original ==
    [][ (pc = "handle" /\ pc' \in {"update", "ack"} /\ PredicateTrue(cur.msg.body))
        => AddsOneInstant(cur.msg.body)
      ]_vars

\* The instant row of a message that found the counter at 3.
C4_Witness ==
    /\ pc = "update"
    /\ PredicateTrue(cur.msg.body)
    /\ "42" \in DOMAIN state /\ state["42"] = 3
    /\ Len(WrittenOfType("instant")) = 1

\* The callback wrote exactly one persistent row, with count N, for the
\* message it runs for, and left the counter of device 42 at 0.
FiredOnce ==
    /\ Len(WrittenOfType("persistent")) = 1
    /\ LET r == WrittenOfType("persistent")[1]
       IN  /\ r.count = rule_persistent_count
           /\ r.device_id = "42"
           /\ r.payload = cur.msg.body.f
           /\ CopiesIn(r, alerts) >= 1
    /\ "42" \in DOMAIN state /\ state["42"] = 0

C6_FalseResets ==
    /\ (pc = "ack" /\ WellFormed(cur.msg.body) /\ ~PredicateTrue(cur.msg.body))
       => /\ cur.msg.body.f["device_id"].s \in DOMAIN state
          /\ state[cur.msg.body.f["device_id"].s] = 0
          /\ streak = 0 \/ cur.msg.body.f["device_id"].s # "42"
    /\ Len(WrittenOfType("persistent")) > 0 => streak >= rule_persistent_count

\* Scenario B: ten instant alerts, the run broken after five, none persistent.
C6_Witness ==
    /\ pc = "idle"
    /\ restarts = 0
    /\ rule_errors = 0
    /\ CountOfType("instant") = 10
    /\ CountOfType("persistent") = 0
    /\ "42" \in DOMAIN state /\ state["42"] = 5

\* C7: the Alert Store holds no row of a device other than "42".
C7_OnlyConfiguredDevice == \A r \in BagToSet(alerts) : r.device_id = "42"

\* A message of device 7 with field_a 6.0 was evaluated while alerts exist.
C7_Witness ==
    /\ pc = "ack"
    /\ WellFormed(cur.msg.body)
    /\ cur.msg.body.f["device_id"].s = "7"
    /\ cur.msg.body.f["field_a"].n > 50
    /\ alerts # EmptyBag

\* A body that is no TelemetryEvent-shaped record: no JSON object, or one
\* without device_id, without field_a, or with a field_a that is no number.
Malformed(body) ==
    \/ body.k # "obj"
    \/ "device_id" \notin DOMAIN body.f
    \/ "field_a" \notin DOMAIN body.f
    \/ PyFloat(body.f["field_a"]) = Raises

\* C8: the evaluation of a malformed message increments the error counter,
\* writes no alert and leaves RuleState as it was.
C8_MalformedLeavesState ==
    (pc = "ack" /\ Malformed(cur.msg.body)) =>
        /\ rule_errors = pre.rule_errors + 1
        /\ written = <<>>
        /\ state = pre.state

\* C9: every delivery handed to the callback is acknowledged exactly once,
\* and only after its evaluation: while the callback runs, its delivery is
\* still unacknowledged and is the only one handed out; once the callback is
\* over, no delivery it was handed is left unacknowledged.
C9_AckOnceAfterEvaluation ==
    /\ pc # "idle" =>
          /\ unacked # <<>>
          /\ Head(unacked) = [msg |-> cur.msg, handed |-> TRUE]
          /\ \A i \in 2 .. Len(unacked) : ~unacked[i].handed
    /\ pc = "idle" => \A i \in 1 .. Len(unacked) : ~unacked[i].handed

\* The callback is over for a message whose alert write failed, after one
\* that fired a rule and one that did not decode, and nothing it was handed
\* is unacknowledged.
C9_Witness ==
    /\ pc = "idle"
    /\ unacked = <<>>
    /\ queue = <<>>
    /\ alerts # EmptyBag
    /\ ~pg_ok
    /\ rule_errors >= 2

\* C13: an Alert Store failure costs the alert of the message being
\* evaluated and no other: the instant alert of a message stays unwritten
\* only when the store fails that message's own write, never because the
\* write of an earlier message had failed.
C13_OnlyThatAlertLost ==
    [][ (/\ pc = "handle"
         /\ pc' \in {"update", "ack"}
         /\ PredicateTrue(cur.msg.body)
         /\ alerts' = alerts)
        => pg_ok
      ]_vars

\* What lines 60-63 make of the counter the callback found.
CounterDue(body) ==
    IF Violates(MsgDevice(body), MsgFieldA(body))
    THEN StateGet(pre.state, MsgDevice(body)) + 1
    ELSE 0

\* C15: for every consumed message that decodes, the counter update is
\* performed whatever the instant-rule step did: once the evaluation is over
\* the device's counter is the one it found plus one when the predicate
\* holds and 0 otherwise (or 0 again, when that made the persistent rule fire).
C15_UpdateUnconditional ==
    (pc = "ack" /\ Decodes(cur.msg.body)) =>
        \/ StateGet(state, MsgDevice(cur.msg.body)) = CounterDue(cur.msg.body)
        \/ /\ CounterDue(cur.msg.body) >= rule_persistent_count
           /\ Len(WrittenOfType("persistent")) = 1
           /\ StateGet(state, MsgDevice(cur.msg.body)) = 0

\* C16: every device's counter is in 0..N, and in 0..N-1 whenever no
\* evaluation is in progress: reaching N writes the persistent alert and puts
\* the counter back to 0, also when the Alert Store fails.
C16_CounterRange ==
    \A d \in DOMAIN state :
        /\ state[d] \in 0 .. rule_persistent_count
        /\ pc = "idle" => state[d] \in 0 .. rule_persistent_count - 1

\* C17: every row of the Alert Store is an instant row with count 1 and
\* severity 1 or a persistent row with count exactly N and severity 2, and
\* the payload of every row a callback writes is the message it runs for.
C17_RowShape ==
    /\ \A r \in BagToSet(alerts) :
         \/ r.rule_type = "instant" /\ r.count = 1 /\ r.severity = 1
         \/ /\ r.rule_type = "persistent"
            /\ r.count = rule_persistent_count
            /\ r.severity = 2
    /\ \A i \in 1 .. Len(written) :
         /\ written[i].payload = json_loads(cur.msg.body)
         /\ CopiesIn(written[i], alerts) >= 1

\* Both kinds of row written for one message, the tenth of a streak that
\* began after a message that raised no alert.
C17_Witness ==
    /\ pc = "ack"
    /\ Len(WrittenOfType("instant")) = 1
    /\ Len(WrittenOfType("persistent")) = 1
    /\ CountOfType("instant") = 10
    /\ sent = 11

\* C18: RuleState starts empty at every engine start: the counter of device
\* 42 never exceeds the number of consecutive predicate-true messages
\* evaluated since the engine last started, every other counter is 0, and a
\* persistent alert is written only after N such messages since that start.
C18_StateRebuiltOnRestart ==
    /\ pc # "update" => StateGet(state, "42") <= streak
    /\ \A d \in DOMAIN state \ {"42"} : state[d] = 0
    /\ Len(WrittenOfType("persistent")) > 0 =>
         /\ streak >= rule_persistent_count
         /\ CountOfType("instant") >= rule_persistent_count

\* A violation counted before the restart, then ten after it, the tenth of
\* which fires the persistent rule.
C18_Witness ==
    /\ restarts = 1
    /\ pc = "ack"
    /\ FiredOnce
    /\ streak = rule_persistent_count
    /\ CountOfType("instant") = 11

\* The devices whose counter the running callback may not touch.
OtherDevices ==
    (DOMAIN state \cup DOMAIN pre.state)
    \ (IF Decodes(cur.msg.body) THEN {MsgDevice(cur.msg.body)} ELSE {})

\* C23: the evaluation of a message of device d changes RuleState at key d
\* only: until the counter update RuleState is as the callback found it,
\* and once the evaluation is over every other device has the counter it had
\* before, so messages of other devices leave a device's streak alone.
C23_FrameEffect ==
    /\ pc \in {"handle", "update"} => state = pre.state
    /\ pc = "ack" =>
         \A d \in OtherDevices :
             /\ d \in DOMAIN state <=> d \in DOMAIN pre.state
             /\ StateGet(state, d) = StateGet(pre.state, d)

\* A message of device 7 was evaluated in the middle of a streak of device
\* 42, whose counter is still 5.
C23_Witness ==
    /\ pc = "ack"
    /\ Decodes(cur.msg.body)
    /\ MsgDevice(cur.msg.body) = "7"
    /\ StateGet(pre.state, "42") = 5
    /\ StateGet(state, "42") = 5
    /\ "7" \in DOMAIN state
    /\ streak = 5

\* C24: whatever messages, Alert Store failures and restarts came before,
\* a callback writes a persistent row only right after an instant row with
\* the same payload, for the same message; so the persistent rows never
\* outnumber the instant rows, and N times their number never exceeds the
\* number of instant rows, each of which belongs to one evaluation of a
\* predicate-true message.
C24_PersistentFollowsInstant ==
    /\ Len(written) <= 2
    /\ \A i \in 1 .. Len(written) :
         written[i].rule_type = "persistent" =>
             /\ i = 2
             /\ written[1].rule_type = "instant"
             /\ written[1].payload = written[2].payload
             /\ PredicateTrue(cur.msg.body)
    /\ Len(written) >= 1 => written[1].rule_type = "instant"
    /\ CountOfType("persistent") <= CountOfType("instant")
    /\ rule_persistent_count * CountOfType("persistent") <= CountOfType("instant")

\* One persistent row and at least ten instant rows, after a restart and
\* with the Alert Store connection failed since.
C24_Witness ==
    /\ pc = "idle"
    /\ restarts = 1
    /\ ~pg_ok
    /\ CountOfType("persistent") = 1
    /\ CountOfType("instant") >= rule_persistent_count

(***************************************************************************)
(* Properties of the pipeline, checked under RouteSpec                     *)
(***************************************************************************)
\* The Ingest calls whose published event has reached the callback and is
\* the payload of row r.
EventsOf(r) == {c \in consumed : calls[c].doc = r.payload}

\* C19: without an engine crash, and so without a redelivery, the Alert Store
\* holds at most one instant row per published event that was consumed; the
\* engine itself does not deduplicate, so after a crash between the alert
\* write and the acknowledgement the redelivered message gets a second row.
C19_OneRowPerEventUnlessRedelivered ==
    restarts = 0 =>
        \A r \in BagToSet(alerts) :
            r.rule_type = "instant" => CopiesIn(r, alerts) <= Cardinality(EventsOf(r))

\* Two instant rows with the same payload from the one event ever published,
\* after a crash of the engine.
C19_Witness ==
    /\ restarts = 1
    /\ Cardinality({c \in CallIds : calls[c].publishes > 0}) = 1
    /\ \E r \in BagToSet(alerts) :
         /\ r.rule_type = "instant"
         /\ CopiesIn(r, alerts) = 2
         /\ Cardinality(EventsOf(r)) = 1

\* The deliveries the callback has been handed and has not acknowledged.
InEvaluation == {i \in 1 .. Len(unacked) : unacked[i].handed}

\* C20: the engine evaluates one message at a time, in delivery order, within
\* a window of at most 10 unacknowledged deliveries: an evaluation starts
\* only when none is in progress and with the oldest unacknowledged
\* delivery; RuleState changes only in the evaluation in progress, and only
\* for that message's device; the acknowledgement ends the evaluation
\* before the next one starts.
C20_OneAtATimeInOrder ==
    [][ /\ Cardinality(InEvaluation) <= 1
        /\ Len(unacked) <= prefetch_count
        /\ (pc' = "handle" /\ pc # "handle") =>
              /\ pc = "idle"
              /\ InEvaluation = {}
              /\ unacked # <<>>
              /\ cur'.msg = Head(unacked).msg
              /\ InEvaluation' = {1}
        /\ (state' # state /\ restarts' = restarts) =>
              /\ pc = "update"
              /\ InEvaluation = {1}
              /\ Head(unacked).msg = cur.msg
              /\ \A d \in DOMAIN state \ {MsgDevice(cur.msg.body)} :
                    d \in DOMAIN state' /\ state'[d] = state[d]
        /\ (pc = "ack" /\ pc' = "idle" /\ restarts' = restarts) =>
              /\ unacked' = Tail(unacked)
              /\ InEvaluation' = {}
      ]_vars

\* The prefetch window is full and the queue holds more, while the first
\* delivery of the window is being evaluated.
C20_Witness ==
    /\ pc = "update"
    /\ Len(unacked) = prefetch_count
    /\ queue # <<>>
    /\ InEvaluation = {1}
    /\ unacked[1].msg # unacked[2].msg

=============================================================================
